---- MODULE Spec2Model ----
(***************************************************************************)
(* State-machine model of src/src/http_api.py: the process-wide Market     *)
(* registry (class Market) and the request Context (class Context) with    *)
(* its endpoint wrappers.                                                  *)
(*                                                                         *)
(* Conventions.  A Python str is a sequence of tokens (the empty str is    *)
(* <<>>, concatenation is \o).  A dict is a sequence of <<key, value>>     *)
(* pairs in insertion order.  An optional slot or value is a sequence of   *)
(* length 0 (unset / None) or 1.  An exception is the name of its type;    *)
(* "None" in an exc field means the call returned normally.                *)
(***************************************************************************)
EXTENDS Integers, Sequences, FiniteSets, TLC

\* Longest market listing the exchange answers with.
MaxListing == 2

None == "None"

Contexts == {"c1", "c2"}
Regions == {"JP", "USA", "EU"}
ProductCodes == {"BTC_JPY", "FX_BTC_JPY"}
Aliases == {"BTCJPY_MAT1WK"}
MarketTypes == {"Spot", "FX"}
ApiKeys == {"K1"}
ApiSecrets == {"S1"}
Timestamps == {"1700000000.25", "1700000001.5"}
NumLits == {"1", "2", "100", "0.01"}

\* ------------------------------------------------------------------ dict

RECURSIVE DictHas(_, _)
DictHas(d, k) ==
    IF d = <<>> THEN FALSE
    ELSE IF Head(d)[1] = k THEN TRUE ELSE DictHas(Tail(d), k)

RECURSIVE DictGet(_, _)
DictGet(d, k) ==
    IF Head(d)[1] = k THEN Head(d)[2] ELSE DictGet(Tail(d), k)

\* d[k] = v: an existing key keeps its position, a new key goes last.
DictSet(d, k, v) ==
    IF DictHas(d, k)
    THEN [i \in 1..Len(d) |-> IF d[i][1] = k THEN <<k, v>> ELSE d[i]]
    ELSE Append(d, <<k, v>>)

RECURSIVE DictFromPairs(_)
DictFromPairs(pairs) ==
    IF pairs = <<>> THEN <<>>
    ELSE LET n == Len(pairs)
         IN DictSet(DictFromPairs(SubSeq(pairs, 1, n - 1)), pairs[n][1], pairs[n][2])

DictValues(d) == [i \in 1..Len(d) |-> d[i][2]]

\* ------------------------------------------------- the exchange's answers

\* One element of the JSON array the market-listing endpoint answers with:
\* an object {product_code, alias, market_type}, or a value that is no object.
MarketObjects ==
    [is_object : {TRUE}, product_code : ProductCodes,
     alias : Aliases \cup {None}, market_type : MarketTypes]

NonObject ==
    [is_object |-> FALSE, product_code |-> None, alias |-> None, market_type |-> None]

ListingItems == MarketObjects \cup {NonObject}

SeqsUpTo(S, n) == UNION {[1..k -> S] : k \in 0..n}

\* Response.text of the market-listing endpoint: a JSON array, or no JSON.
NotJson == [is_json |-> FALSE, items |-> <<>>]
MarketBodies ==
    {[is_json |-> TRUE, items |-> s] : s \in SeqsUpTo(ListingItems, MaxListing)} \cup {NotJson}

\* Response.text of every other endpoint; the client never reads it.
OtherBody == [is_json |-> TRUE, items |-> <<>>]

\* A listing of two markets, and the answers of an exchange that serves it or
\* serves an error page instead.
TwoMarkets ==
    <<[is_object |-> TRUE, product_code |-> "BTC_JPY", alias |-> None, market_type |-> "Spot"],
      [is_object |-> TRUE, product_code |-> "FX_BTC_JPY", alias |-> "BTCJPY_MAT1WK",
       market_type |-> "FX"]>>
TwoMarketBodies == {[is_json |-> TRUE, items |-> TwoMarkets], NotJson}

\* ------------------------------------------------------------- variables

VARIABLES
    hasMarkets,   \* hasattr(Market, '_markets')
    _markets,     \* Market._markets: dict product_code -> Market, once it exists
    ctx,          \* the slots of each Context object (alive: it was constructed)
    sent,         \* requests handed to requests.request by the last call, in order
    last,         \* the last call of the client program: operation, arguments, outcome
    fetched,      \* what the transport answered to the market-listing request, if any
    nFetch,       \* market-listing requests handed to the transport so far
    exchange      \* which exchange the program talks to (see ListingTexts)

vars == <<hasMarkets, _markets, ctx, sent, last, fetched, nFetch, exchange>>

\* ------------------------------------------------------- request building

endpoint(self) ==
    CASE self.region = <<"JP">> -> "https://api.bitflyer.com"
      [] self.region = <<"USA">> -> "https://api.bitflyer.com"
      [] self.region = <<"EU">> -> "https://api.bitflyer.com"

lower(region) ==
    CASE region = "JP" -> "jp" [] region = "USA" -> "usa" [] region = "EU" -> "eu"

_get_regionwise_path(self, base_path) ==
    IF self.region = <<"JP">> THEN <<base_path>>
    ELSE <<base_path, "/", lower(self.region[1])>>

\* urllib.parse.quote_plus: every key and value of the model consists of
\* unreserved characters only, which quote_plus leaves as they are.
quote_plus(tok) == tok

RECURSIVE urlencode(_)
urlencode(query) ==
    IF query = <<>> THEN <<>>
    ELSE LET n == Len(query)
             kv == <<quote_plus(query[n][1]), "=", quote_plus(query[n][2])>>
         IN IF n = 1 THEN kv
            ELSE urlencode(SubSeq(query, 1, n - 1)) \o <<"&">> \o kv

\* json.dumps of one value: a number as its digits, a str in double quotes.
json_value(v) == IF v \in NumLits THEN <<v>> ELSE <<"\"", v, "\"">>

RECURSIVE json_members(_)
json_members(data) ==
    LET n == Len(data)
        kv == <<"\"", data[n][1], "\"", ": ">> \o json_value(data[n][2])
    IN IF n = 1 THEN kv
       ELSE json_members(SubSeq(data, 1, n - 1)) \o <<", ">> \o kv

json_dumps(data) ==
    IF data = <<>> THEN <<"{}">> ELSE <<"{">> \o json_members(data) \o <<"}">>

\* str.encode('utf8')
encode_utf8(s) == [encoding |-> "utf8", text |-> s]

\* HMAC(key, msg, sha256).hexdigest(), kept symbolic: the digest determines
\* and is determined by the key and the message.
HMAC_sha256_hex(key, msg) == [key |-> key, msg |-> msg]

\* _create_header reading the clock once for the message and once more for the
\* header.
_create_header_second_clock(self, method, path, data) ==
    IF self.secret = <<>> \/ self.key = <<>>
    THEN [exc |-> "AttributeError", headers |-> {}]
    ELSE [exc |-> None,
          headers |->
            {LET msg == encode_utf8(<<now, method>> \o path \o data)
                 sign == HMAC_sha256_hex(self.secret[1], msg)
             IN [ACCESS_KEY |-> self.key[1],
                 ACCESS_TIMESTAMP |-> later,
                 ACCESS_SIGN |-> sign,
                 Content_Type |-> "application/json"] :
                now \in Timestamps, later \in Timestamps}]

\* The headers _create_header can return, one per reading of the clock; the
\* read of an unset secret or key slot raises AttributeError.
_create_header(self, method, path, data) ==
    IF self.secret = <<>> \/ self.key = <<>>
    THEN [exc |-> "AttributeError", headers |-> {}]
    ELSE [exc |-> None,
          headers |->
            {LET timestamp == now
                 msg == encode_utf8(<<timestamp, method>> \o path \o data)
                 sign == HMAC_sha256_hex(self.secret[1], msg)
             IN [ACCESS_KEY |-> self.key[1],
                 ACCESS_TIMESTAMP |-> timestamp,
                 ACCESS_SIGN |-> sign,
                 Content_Type |-> "application/json"] : now \in Timestamps}]

IsMarketListing(path) == Len(path) >= 1 /\ path[1] = "/v1/markets"

\* The texts the exchange may answer a market-listing request with.
ListingTexts ==
    CASE exchange = "two_markets" -> TwoMarketBodies
      [] exchange = "any_listing" -> MarketBodies

\* requests.request: it raises, or returns a Response with the exchange's text.
request(method, url, path) ==
    {[raised |-> TRUE, text |-> NotJson]} \cup
    {[raised |-> FALSE, text |-> t] :
        t \in IF IsMarketListing(path) THEN ListingTexts ELSE {OtherBody}}

\* The outcomes of one _send_request call: the requests it handed to the
\* transport, the exception that left it, and the Response it returned.
_send_request(self, method, path, query, data, add_headers) ==
    LET url == <<endpoint(self)>> \o path \o
               (IF Len(query) = 0 THEN <<"?">> \o urlencode(query) ELSE <<>>)
        data_str == IF Len(data) = 0 THEN <<>> ELSE json_dumps(data)
        hdr == IF add_headers THEN _create_header(self, method, path, data_str)
               ELSE [exc |-> None, headers |-> {}]
        call == [method |-> method, path |-> path, query |-> query,
                 data |-> data, add_headers |-> add_headers]
    IN IF hdr.exc # None
       THEN {[sent |-> <<>>, exc |-> hdr.exc, res |-> <<>>]}
       ELSE {[sent |-> <<[call |-> call, method |-> method, url |-> url,
                          data |-> data_str, headers |-> h]>>,
              exc |-> IF reply.raised THEN "ConnectionError" ELSE None,
              res |-> IF reply.raised THEN <<>> ELSE <<reply.text>>] :
                h \in IF add_headers THEN {<<x>> : x \in hdr.headers} ELSE {<<>>},
                reply \in request(method, url, path)}

send_public_request(self, method, path, query, data) ==
    _send_request(self, method, path, query, data, FALSE)

send_private_request(self, method, path, query, data) ==
    _send_request(self, method, path, query, data, TRUE)

getmarket(self) ==
    send_public_request(self, "GET", _get_regionwise_path(self, "/v1/markets"), <<>>, <<>>)

\* ---------------------------------------------------------- class Market

\* The loading loop storing a Market only under a product_code not yet stored.
RECURSIVE load_markets_keep_first(_, _)
load_markets_keep_first(mk, items) ==
    IF items = <<>> THEN [markets |-> mk, exc |-> None]
    ELSE LET market_data == Head(items)
             market == [product_code |-> market_data.product_code,
                        alias |-> market_data.alias,
                        market_type |-> market_data.market_type]
         IN IF ~market_data.is_object
            THEN [markets |-> mk, exc |-> "AttributeError"]
            ELSE load_markets_keep_first(
                    IF DictHas(mk, market.product_code) THEN mk
                    ELSE DictSet(mk, market.product_code, market), Tail(items))

\* The loop of Market.__new__ over the parsed listing: one Market per item,
\* each slot set from market_data.get(slot), stored under its product_code.
\* An item that is no JSON object has no get: AttributeError leaves the loop
\* with the items before it stored.
RECURSIVE load_markets(_, _)
load_markets(mk, items) ==
    IF items = <<>> THEN [markets |-> mk, exc |-> None]
    ELSE LET market_data == Head(items)
             market == [product_code |-> market_data.product_code,
                        alias |-> market_data.alias,
                        market_type |-> market_data.market_type]
         IN IF ~market_data.is_object
            THEN [markets |-> mk, exc |-> "AttributeError"]
            ELSE load_markets(DictSet(mk, market.product_code, market), Tail(items))

\* for market in cls._markets.values(): if market.alias == alias: return market
RECURSIVE first_with_alias(_, _)
first_with_alias(values, alias) ==
    IF values = <<>> THEN <<>>
    ELSE IF Head(values).alias = alias THEN <<Head(values)>>
    ELSE first_with_alias(Tail(values), alias)

\* The two lookup branches of Market.__new__ (exactly one argument is given).
lookup(mk, product_code, alias) ==
    IF product_code # None
    THEN IF DictHas(mk, product_code)
         THEN [exc |-> None, value |-> <<DictGet(mk, product_code)>>]
         ELSE [exc |-> "KeyError", value |-> <<>>]
    ELSE LET found == first_with_alias(DictValues(mk), alias)
         IN IF found # <<>> THEN [exc |-> None, value |-> found]
            ELSE [exc |-> "KeyError", value |-> <<>>]

\* What one answer res of getmarket() makes of the first load (the block under
\* "if not hasattr(cls, '_markets')"): cls._markets exists from its first line
\* on, whether the fetch, the parse or the loop raises or not.
loaded(res) ==
    LET text == IF res.exc = None THEN res.res[1] ELSE NotJson
        ld == load_markets(<<>>, text.items)
        reply == <<[raised |-> res.exc # None, text |-> text]>>
    IN IF res.exc # None
       THEN [has |-> TRUE, markets |-> <<>>, sent |-> res.sent, reply |-> reply,
             exc |-> res.exc]
       ELSE IF ~text.is_json
       THEN [has |-> TRUE, markets |-> <<>>, sent |-> res.sent, reply |-> reply,
             exc |-> "JSONDecodeError"]
       ELSE [has |-> TRUE, markets |-> ld.markets, sent |-> res.sent, reply |-> reply,
             exc |-> ld.exc]

\* A load block that creates cls._markets only once the listing is loaded.
populate_marks_on_success(cxt) ==
    {[loaded(res) EXCEPT !.has = (loaded(res).exc = None)] : res \in getmarket(cxt)}

populate(cxt) == {loaded(res) : res \in getmarket(cxt)}

\* The class state a call finds when the registry exists already.
populated(has, mk) ==
    [has |-> has, markets |-> mk, sent |-> <<>>, reply |-> <<>>, exc |-> None]

\* The rest of Market.__new__ after the load block left the class in state p.
resolve(p, product_code, alias) ==
    LET lk == lookup(p.markets, product_code, alias)
    IN IF p.exc # None
       THEN [has |-> p.has, markets |-> p.markets, sent |-> p.sent, reply |-> p.reply,
             exc |-> p.exc, value |-> <<>>]
       ELSE [has |-> p.has, markets |-> p.markets, sent |-> p.sent, reply |-> p.reply,
             exc |-> lk.exc, value |-> lk.value]

\* Market.__new__ with the argument validation moved below the load block.
Market__new__validate_after_load(has, mk, cxt, product_code, alias) ==
    {IF (product_code = None) = (alias = None)
     THEN [has |-> p.has, markets |-> p.markets, sent |-> p.sent, reply |-> p.reply,
           exc |-> "TypeError", value |-> <<>>]
     ELSE resolve(p, product_code, alias) :
        p \in IF ~has THEN populate(cxt) ELSE {populated(has, mk)}}

\* The outcomes of Market(cxt, product_code=..., alias=...) when the class is in
\* the state (has, mk): the class state it leaves, the requests it handed to
\* the transport, the transport's answer to them, the exception or the Market.
Market__new__(has, mk, cxt, product_code, alias) ==
    IF (product_code = None) = (alias = None)
    THEN {[has |-> has, markets |-> mk, sent |-> <<>>, reply |-> <<>>,
           exc |-> "TypeError", value |-> <<>>]}
    ELSE {resolve(p, product_code, alias) :
            p \in IF ~has THEN populate(cxt) ELSE {populated(has, mk)}}

\* --------------------------------------------------------- class Context

NoContext == [alive |-> FALSE, region |-> <<>>, market |-> <<>>, key |-> <<>>, secret |-> <<>>]

\* set_market: the outcomes of Market(...), and self with the market slot
\* assigned when a Market came back.
set_market(has, mk, self, product_code, alias) ==
    {[has |-> r.has, markets |-> r.markets, sent |-> r.sent, reply |-> r.reply,
      exc |-> r.exc, value |-> <<>>,
      self |-> IF r.exc = None THEN [self EXCEPT !.market = r.value] ELSE self] :
        r \in Market__new__(has, mk, self, product_code, alias)}

\* set_api_key assigning the key slot only.
set_api_key_drops_secret(self, key, secret) == [self EXCEPT !.key = <<key>>]

set_api_key(self, key, secret) ==
    [self EXCEPT !.key = <<key>>, !.secret = <<encode_utf8(<<secret>>)>>]

\* Context(region, product_code, alias, api_key, api_secret): the outcomes of
\* __init__; self is alive only when __init__ returned.
Context__init__(has, mk, region, product_code, alias, api_key, api_secret) ==
    LET self0 == [NoContext EXCEPT !.region = <<region>>]
        with_key(self) ==
            IF ~(api_key = None \/ api_secret = None)
            THEN set_api_key(self, api_key, api_secret) ELSE self
    IN IF ~(product_code = None /\ alias = None)
       THEN {[r EXCEPT !.self = IF r.exc = None
                                THEN [with_key(r.self) EXCEPT !.alive = TRUE]
                                ELSE NoContext] :
                r \in set_market(has, mk, self0, product_code, alias)}
       ELSE {[has |-> has, markets |-> mk, sent |-> <<>>, reply |-> <<>>,
              exc |-> None, value |-> <<>>,
              self |-> [with_key(self0) EXCEPT !.alive = TRUE]]}

\* A call that raised before anything reached the transport.
Raised(exc) == {[sent |-> <<>>, exc |-> exc, res |-> <<>>]}

\* gen_market_data completing the query with the bound market's alias.
gen_market_data_bound_alias(cxt, product_code, alias) ==
    IF product_code # None THEN [exc |-> None, pairs |-> <<<<"product_code", product_code>>>>]
    ELSE IF alias # None THEN [exc |-> None, pairs |-> <<<<"alias", alias>>>>]
    ELSE IF cxt.market = <<>> THEN [exc |-> "AttributeError", pairs |-> <<>>]
    ELSE [exc |-> None, pairs |-> <<<<"alias", cxt.market[1].alias>>>>]

gen_market_data(cxt, product_code, alias) ==
    IF product_code # None THEN [exc |-> None, pairs |-> <<<<"product_code", product_code>>>>]
    ELSE IF alias # None THEN [exc |-> None, pairs |-> <<<<"alias", alias>>>>]
    ELSE IF cxt.market = <<>> THEN [exc |-> "AttributeError", pairs |-> <<>>]
    ELSE [exc |-> None, pairs |-> <<<<"product_code", cxt.market[1].product_code>>>>]

gen_pagenation(count, before, after) ==
    (IF count # None THEN <<<<"count", count>>>> ELSE <<>>) \o
    (IF before # None THEN <<<<"before", before>>>> ELSE <<>>) \o
    (IF after # None THEN <<<<"after", after>>>> ELSE <<>>)

\* getboard, getticker, getboardstate, gethealth: they differ in the path only.
market_query(self, path, product_code, alias) ==
    LET g == gen_market_data(self, product_code, alias)
    IN IF g.exc # None THEN Raised(g.exc)
       ELSE send_public_request(self, "GET", <<path>>, DictFromPairs(g.pairs), <<>>)

getboard(self, product_code, alias) == market_query(self, "/v1/getboard", product_code, alias)
getticker(self, product_code, alias) == market_query(self, "/v1/getticker", product_code, alias)
getboardstate(self, product_code, alias) == market_query(self, "/v1/getboardstate", product_code, alias)
gethealth(self, product_code, alias) == market_query(self, "/v1/gethealth", product_code, alias)

getexecutions(self, product_code, alias, count, before, after) ==
    LET g == gen_market_data(self, product_code, alias)
    IN IF g.exc # None THEN Raised(g.exc)
       ELSE send_public_request(self, "GET", <<"/v1/getexecutions">>,
                DictFromPairs(g.pairs \o gen_pagenation(count, before, after)), <<>>)

getchats(self, from_date) ==
    send_public_request(self, "GET", _get_regionwise_path(self, "/v1/getchats"),
        IF from_date # None THEN <<<<"from_date", from_date>>>> ELSE <<>>, <<>>)

me_getpermissions(self) ==
    send_private_request(self, "GET", <<"/v1/me/getpermissionss">>, <<>>, <<>>)

me_getbalance(self) ==
    send_private_request(self, "GET", <<"/v1/me/getbalance">>, <<>>, <<>>)

me_getcoinins(self, count, before, after) ==
    send_private_request(self, "GET", <<"/v1/me/getcoinins">>,
        DictFromPairs(gen_pagenation(count, before, after)), <<>>)

RECURSIVE not_none(_)
not_none(kwargs) ==
    IF kwargs = <<>> THEN <<>>
    ELSE (IF Head(kwargs)[2] # None THEN <<Head(kwargs)>> ELSE <<>>) \o not_none(Tail(kwargs))

me_sendchildorder(self, child_order_type, side, size, kwargs) ==
    IF self.market = <<>> THEN Raised("AttributeError")
    ELSE send_private_request(self, "POST", <<"/v1/me/sendchildorder">>, <<>>,
            DictFromPairs(<<<<"product_code", self.market[1].product_code>>,
                            <<"child_order_type", child_order_type>>,
                            <<"side", side>>, <<"size", size>>>> \o not_none(kwargs)))

\* next(obj): obj must be an iterator; kwargs.items() is a dict_items view,
\* which is iterable but has no __next__.
next_builtin(kind, elems) ==
    IF kind \notin {"generator", "dict_itemiterator"} THEN [exc |-> "TypeError", value |-> <<>>]
    ELSE IF elems = <<>> THEN [exc |-> "StopIteration", value |-> <<>>]
    ELSE [exc |-> None, value |-> <<Head(elems)>>]

me_cancelchildorder(self, kwargs) ==
    IF Len(kwargs) # 1 THEN Raised("AssertionError")
    ELSE LET nx == next_builtin("dict_items", kwargs)
         IN IF nx.exc # None THEN Raised(nx.exc)
            ELSE IF self.market = <<>> THEN Raised("AttributeError")
            ELSE send_private_request(self, "POST", <<"/v1/me/cancelchildorder">>, <<>>,
                    DictFromPairs(<<<<"product_code", self.market[1].product_code>>,
                                    nx.value[1]>>))

\* ------------------------------------------------- the client program

PcArgs == ProductCodes \cup {None}
AliasArgs == Aliases \cup {None}
KeyArgs == ApiKeys \cup {None}
SecretArgs == ApiSecrets \cup {None}
CountArgs == {None, "100"}
BeforeArgs == {None, "2"}
AfterArgs == {None, "1"}
DateArgs == {None, "2020-01-01"}
OrderTypes == {"LIMIT", "MARKET"}
PriceArgs == {None, "100"}
OrderIds == {"JOR20150707-055555-022222"}
CancelKwargs ==
    {<<>>} \cup {<<<<"child_order_id", i>>>> : i \in OrderIds}
    \cup {<<<<"child_order_acceptance_id", i>>>> : i \in OrderIds}
    \cup {<<<<"child_order_id", i>>, <<"child_order_acceptance_id", i>>>> : i \in OrderIds}

RECURSIVE CountListing(_)
CountListing(reqs) ==
    IF reqs = <<>> THEN 0
    ELSE (IF Head(reqs).method = "GET" /\ IsMarketListing(Head(reqs).call.path) THEN 1 ELSE 0)
         + CountListing(Tail(reqs))

Init ==
    /\ hasMarkets = FALSE
    /\ _markets = <<>>
    /\ ctx = [c \in Contexts |-> NoContext]
    /\ sent = <<>>
    /\ last = [op |-> "start", cxt |-> None, args |-> <<>>, exc |-> None, value |-> <<>>]
    /\ fetched = <<>>
    /\ nFetch = 0
    /\ exchange = "two_markets"

\* The effect of a call that may touch the registry: r is one of its outcomes.
Registry(op, c, args, r, self) ==
    /\ hasMarkets' = r.has
    /\ _markets' = r.markets
    /\ ctx' = [ctx EXCEPT ![c] = self]
    /\ sent' = r.sent
    /\ fetched' = IF r.reply # <<>> THEN r.reply ELSE fetched
    /\ nFetch' = nFetch + CountListing(r.sent)
    /\ last' = [op |-> op, cxt |-> c, args |-> args, exc |-> r.exc, value |-> r.value]
    /\ UNCHANGED exchange

\* The effect of an endpoint wrapper: r is one of its outcomes.
Endpoint(op, c, args, r) ==
    /\ sent' = r.sent
    /\ nFetch' = nFetch + CountListing(r.sent)
    /\ last' = [op |-> op, cxt |-> c, args |-> args, exc |-> r.exc, value |-> <<>>]
    /\ UNCHANGED <<hasMarkets, _markets, ctx, fetched, exchange>>

MarketArgs(product_code, alias) == <<<<"product_code", product_code>>, <<"alias", alias>>>>
PageArgs(count, before, after) == <<<<"count", count>>, <<"before", before>>, <<"after", after>>>>

\* cxt = Context(region, product_code=..., alias=..., api_key=..., api_secret=...)
NewContext(c, keys, secrets) ==
    /\ ~ctx[c].alive
    /\ \E region \in Regions, product_code \in PcArgs, alias \in AliasArgs,
          api_key \in keys, api_secret \in secrets :
        \E r \in Context__init__(hasMarkets, _markets, region, product_code, alias,
                                 api_key, api_secret) :
            Registry("Context", c,
                     <<<<"region", region>>>> \o MarketArgs(product_code, alias)
                        \o <<<<"api_key", api_key>>, <<"api_secret", api_secret>>>>,
                     r, r.self)

\* Market(cxt, product_code=..., alias=...)
MarketLookup(c) ==
    /\ ctx[c].alive
    /\ \E product_code \in PcArgs, alias \in AliasArgs :
        \E r \in Market__new__(hasMarkets, _markets, ctx[c], product_code, alias) :
            Registry("Market", c, MarketArgs(product_code, alias), r, ctx[c])

\* cxt.set_market(product_code=..., alias=...)
SetMarket(c) ==
    /\ ctx[c].alive
    /\ \E product_code \in PcArgs, alias \in AliasArgs :
        \E r \in set_market(hasMarkets, _markets, ctx[c], product_code, alias) :
            Registry("set_market", c, MarketArgs(product_code, alias), r, r.self)

\* cxt.set_api_key(key, secret)
SetApiKey(c) ==
    /\ ctx[c].alive
    /\ \E key \in ApiKeys, secret \in ApiSecrets :
        /\ ctx' = [ctx EXCEPT ![c] = set_api_key(ctx[c], key, secret)]
        /\ sent' = <<>>
        /\ last' = [op |-> "set_api_key", cxt |-> c,
                    args |-> <<<<"key", key>>, <<"secret", secret>>>>,
                    exc |-> None, value |-> <<>>]
        /\ UNCHANGED <<hasMarkets, _markets, fetched, nFetch, exchange>>

GetBoard(c) ==
    /\ ctx[c].alive
    /\ \E product_code \in PcArgs, alias \in AliasArgs :
        \E r \in getboard(ctx[c], product_code, alias) :
            Endpoint("getboard", c, MarketArgs(product_code, alias), r)

GetTicker(c) ==
    /\ ctx[c].alive
    /\ \E product_code \in PcArgs, alias \in AliasArgs :
        \E r \in getticker(ctx[c], product_code, alias) :
            Endpoint("getticker", c, MarketArgs(product_code, alias), r)

GetExecutions(c) ==
    /\ ctx[c].alive
    /\ \E product_code \in PcArgs, alias \in AliasArgs,
          count \in CountArgs, before \in BeforeArgs, after \in AfterArgs :
        \E r \in getexecutions(ctx[c], product_code, alias, count, before, after) :
            Endpoint("getexecutions", c,
                     MarketArgs(product_code, alias) \o PageArgs(count, before, after), r)

GetBoardState(c) ==
    /\ ctx[c].alive
    /\ \E product_code \in PcArgs, alias \in AliasArgs :
        \E r \in getboardstate(ctx[c], product_code, alias) :
            Endpoint("getboardstate", c, MarketArgs(product_code, alias), r)

GetHealth(c) ==
    /\ ctx[c].alive
    /\ \E product_code \in PcArgs, alias \in AliasArgs :
        \E r \in gethealth(ctx[c], product_code, alias) :
            Endpoint("gethealth", c, MarketArgs(product_code, alias), r)

GetChats(c) ==
    /\ ctx[c].alive
    /\ \E from_date \in DateArgs :
        \E r \in getchats(ctx[c], from_date) :
            Endpoint("getchats", c, <<<<"from_date", from_date>>>>, r)

MeGetPermissions(c) ==
    /\ ctx[c].alive
    /\ \E r \in me_getpermissions(ctx[c]) : Endpoint("me_getpermissions", c, <<>>, r)

MeGetBalance(c) ==
    /\ ctx[c].alive
    /\ \E r \in me_getbalance(ctx[c]) : Endpoint("me_getbalance", c, <<>>, r)

MeGetCoinIns(c) ==
    /\ ctx[c].alive
    /\ \E count \in CountArgs, before \in BeforeArgs, after \in AfterArgs :
        \E r \in me_getcoinins(ctx[c], count, before, after) :
            Endpoint("me_getcoinins", c, PageArgs(count, before, after), r)

MeSendChildOrder(c) ==
    /\ ctx[c].alive
    /\ \E child_order_type \in OrderTypes, price \in PriceArgs :
        \E r \in me_sendchildorder(ctx[c], child_order_type, "BUY", "0.01",
                                   <<<<"price", price>>>>) :
            Endpoint("me_sendchildorder", c,
                     <<<<"child_order_type", child_order_type>>, <<"side", "BUY">>,
                       <<"size", "0.01">>, <<"price", price>>>>, r)

MeCancelChildOrder(c) ==
    /\ ctx[c].alive
    /\ \E kwargs \in CancelKwargs :
        \E r \in me_cancelchildorder(ctx[c], kwargs) :
            Endpoint("me_cancelchildorder", c, kwargs, r)

\* A program that holds one Context and calls any of its operations.
Next ==
    \/ NewContext("c1", KeyArgs, SecretArgs)
    \/ MarketLookup("c1")
    \/ SetMarket("c1")
    \/ SetApiKey("c1")
    \/ GetBoard("c1")
    \/ GetTicker("c1")
    \/ GetExecutions("c1")
    \/ GetBoardState("c1")
    \/ GetHealth("c1")
    \/ GetChats("c1")
    \/ MeGetPermissions("c1")
    \/ MeGetBalance("c1")
    \/ MeGetCoinIns("c1")
    \/ MeSendChildOrder("c1")
    \/ MeCancelChildOrder("c1")

Spec == Init /\ [][Next]_vars

\* A program of several Contexts without credentials that resolves markets.
NextRegistry ==
    \/ \E c \in Contexts : NewContext(c, {None}, {None})
    \/ \E c \in Contexts : MarketLookup(c)
    \/ \E c \in Contexts : SetMarket(c)

SpecRegistry == Init /\ [][NextRegistry]_vars

\* A program of one Context that resolves markets against an exchange that
\* may answer with any listing of at most MaxListing items.
InitLookup ==
    /\ hasMarkets = FALSE
    /\ _markets = <<>>
    /\ ctx = [c \in Contexts |-> NoContext]
    /\ sent = <<>>
    /\ last = [op |-> "start", cxt |-> None, args |-> <<>>, exc |-> None, value |-> <<>>]
    /\ fetched = <<>>
    /\ nFetch = 0
    /\ exchange = "any_listing"

NextLookup ==
    \/ NewContext("c1", {None}, {None})
    \/ MarketLookup("c1")
    \/ SetMarket("c1")

SpecLookup == InitLookup /\ [][NextLookup]_vars

\* ---------------------------------------------------------------- claims

\* The argument a call was given under a name (None when it was given none).
ArgOf(args, name) == IF DictHas(args, name) THEN DictGet(args, name) ELSE None
Arg(name) == ArgOf(last.args, name)
Requests == {sent[i] : i \in 1..Len(sent)}
MarketDependentOps == {"getboard", "getticker", "getexecutions", "getboardstate", "gethealth"}
PrivateOps == {"me_getpermissions", "me_getbalance", "me_getcoinins",
               "me_sendchildorder", "me_cancelchildorder"}
PrivatePaths == {<<"/v1/me/getpermissionss">>, <<"/v1/me/getbalance">>, <<"/v1/me/getcoinins">>,
                 <<"/v1/me/sendchildorder">>, <<"/v1/me/cancelchildorder">>}
ResolveOps == {"Market", "set_market", "Context"}
Host == "https://api.bitflyer.com"
Tokens(str) == {str[i] : i \in 1..Len(str)}

\* C1: in every signed request handed to the transport, the HMAC message is
\* timestamp || method || path || body with nothing in between, the timestamp
\* being the ACCESS-TIMESTAMP header's value, the path the request path with
\* neither host nor query string, the body the body handed to the transport
\* (the empty string when the body mapping is empty).
C1_SignedMessage ==
    \A r \in Requests :
        r.call.add_headers =>
            /\ r.headers # <<>>
            /\ LET h == r.headers[1]
               IN /\ h.ACCESS_SIGN.msg =
                        encode_utf8(<<h.ACCESS_TIMESTAMP, r.method>> \o r.call.path \o r.data)
                  /\ Tokens(h.ACCESS_SIGN.msg.text) \cap {Host, "?", "&", "="} = {}
            /\ r.call.data = <<>> => r.data = <<>>

C1_Witness ==
    /\ last.op = "me_getbalance"
    /\ Len(sent) = 1
    /\ sent[1].headers # <<>>
    /\ sent[1].headers[1].ACCESS_SIGN.msg.text =
            <<sent[1].headers[1].ACCESS_TIMESTAMP, "GET", "/v1/me/getbalance">>

\* C2: the URL handed to the transport is endpoint + path, followed by
\* '?' + urlencode(query) if and only if the query is non-empty.
C2_UrlCarriesQuery ==
    \A r \in Requests :
        r.url = <<Host>> \o r.call.path \o
                (IF r.call.query # <<>> THEN <<"?">> \o urlencode(r.call.query) ELSE <<>>)

\* C3: the market-listing endpoint is requested at most once by all lookups,
\* Context constructions and set_market calls of all Contexts together: by the
\* first lookup that passes the argument validation (a GET of the caller's
\* region-wise /v1/markets path) and by no call after it.
C3_FetchAtMostOnce ==
    /\ nFetch <= 1
    /\ hasMarkets <=> nFetch = 1
    /\ (last.op \in ResolveOps /\ (Arg("product_code") = None) # (Arg("alias") = None))
            => nFetch = 1
    /\ \A r \in Requests :
        /\ r.method = "GET"
        /\ r.call.path = LET region == IF last.op = "Context" THEN Arg("region")
                                       ELSE ctx[last.cxt].region[1]
                         IN IF region = "JP" THEN <<"/v1/markets">>
                            ELSE <<"/v1/markets", "/", lower(region)>>

C3_Witness ==
    /\ nFetch = 1
    /\ fetched # <<>> /\ fetched[1].raised
    /\ last.op \in ResolveOps /\ last.cxt = "c2" /\ ctx["c1"].alive
    /\ (Arg("product_code") = None) # (Arg("alias") = None)
    /\ sent = <<>>
    /\ last.exc = "KeyError"

\* C4: a market-dependent endpoint called with neither product_code nor alias
\* sends a query holding product_code = the bound market's product_code and no
\* alias when the Context has a bound market, and otherwise fails (reading the
\* unset market slot raises) with nothing handed to the transport.
C4_MarketCompletion ==
    (last.op \in MarketDependentOps /\ Arg("product_code") = None /\ Arg("alias") = None) =>
        IF ctx[last.cxt].market # <<>>
        THEN /\ Len(sent) = 1
             /\ DictHas(sent[1].call.query, "product_code")
             /\ DictGet(sent[1].call.query, "product_code") = ctx[last.cxt].market[1].product_code
             /\ ~DictHas(sent[1].call.query, "alias")
        ELSE last.exc = "AttributeError" /\ sent = <<>>

C4_Witness ==
    /\ last.op = "getexecutions"
    /\ Arg("product_code") = None /\ Arg("alias") = None
    /\ ctx[last.cxt].market # <<>>
    /\ ctx[last.cxt].market[1].product_code = "FX_BTC_JPY"
    /\ Len(sent) = 1
    /\ DictGet(sent[1].call.query, "product_code") = "FX_BTC_JPY"

\* C5: a market-dependent endpoint called with both product_code and alias
\* fails with InvalidArgument (TypeError) and hands nothing to the transport.
C5_BothRejected ==
    (last.op \in MarketDependentOps /\ Arg("product_code") # None /\ Arg("alias") # None) =>
        last.exc = "TypeError" /\ sent = <<>>

\* The call l reached Market.__new__: the constructor calls set_market only
\* when it is given a product_code or an alias.
ResolveReached(l) ==
    \/ l.op \in {"Market", "set_market"}
    \/ l.op = "Context"
        /\ ~(ArgOf(l.args, "product_code") = None /\ ArgOf(l.args, "alias") = None)

\* C6: a registry resolve (Market(...), set_market, or the Context constructor
\* given a market argument) with both or neither of product_code and alias
\* raises TypeError, hands nothing to the transport and leaves the registry
\* as it was.
C6_ValidateBeforeRegistry ==
    [][(/\ ResolveReached(last')
        /\ (ArgOf(last'.args, "product_code") = None) = (ArgOf(last'.args, "alias") = None))
        => /\ last'.exc = "TypeError"
           /\ sent' = <<>>
           /\ UNCHANGED <<hasMarkets, _markets, fetched, nFetch>>]_vars

C6_Witness ==
    /\ last.op = "set_market"
    /\ Arg("product_code") # None /\ Arg("alias") # None
    /\ last.exc = "TypeError"
    /\ ~hasMarkets /\ nFetch = 0

\* The listing of a load that fetched, parsed and stored every item.
CompleteLoad ==
    /\ fetched # <<>>
    /\ ~fetched[1].raised
    /\ fetched[1].text.is_json
    /\ \A i \in 1..Len(fetched[1].text.items) : fetched[1].text.items[i].is_object
Listing == fetched[1].text.items
Descriptor(e) == [product_code |-> e.product_code, alias |-> e.alias, market_type |-> e.market_type]
\* What the last resolve returned: the Market, or the market slot it was stored in.
Resolved == IF last.op = "Market" THEN last.value ELSE ctx[last.cxt].market
AliasNotFound ==
    (/\ last.op \in ResolveOps /\ CompleteLoad
     /\ Arg("product_code") = None /\ Arg("alias") # None
     /\ \A i \in 1..Len(Listing) : Listing[i].alias # Arg("alias"))
        => last.exc = "KeyError"

\* C7 as stated: after a complete load, a lookup by the product_code of any
\* entry e of the listing returns e's own product_code, alias and market_type,
\* and a lookup by an alias no entry carries raises KeyError.
C7_RoundTripEveryEntry ==
    /\ (last.op \in ResolveOps /\ CompleteLoad /\ Arg("product_code") # None /\ Arg("alias") = None)
        => \A i \in 1..Len(Listing) :
            Listing[i].product_code = Arg("product_code")
                => last.exc = None /\ Resolved = <<Descriptor(Listing[i])>>
    /\ AliasNotFound

\* C7 amended: after a complete load, a lookup by the product_code of an entry
\* e of the listing returns the product_code, alias and market_type of the last
\* entry of the listing that carries that product_code (e itself when no later
\* entry does), and a lookup by an alias no entry carries raises KeyError.
C7_RoundTripLastEntry ==
    /\ (last.op \in ResolveOps /\ CompleteLoad /\ Arg("product_code") # None /\ Arg("alias") = None)
        => \A i \in 1..Len(Listing) :
            (/\ Listing[i].product_code = Arg("product_code")
             /\ \A j \in (i + 1)..Len(Listing) : Listing[j].product_code # Arg("product_code"))
                => last.exc = None /\ Resolved = <<Descriptor(Listing[i])>>
    /\ AliasNotFound

C7_Witness ==
    /\ last.op = "Market" /\ CompleteLoad /\ sent = <<>>
    /\ Len(Listing) = 2
    /\ Listing[1].product_code = Arg("product_code")
    /\ Listing[2].product_code = Arg("product_code")
    /\ Listing[1] # Listing[2]
    /\ last.value = <<Descriptor(Listing[2])>>

\* C8: a Context has a key if and only if it has a secret; a request for a
\* /v1/me/ path reaches the transport only from a Context that has both, and
\* then carries ACCESS-KEY, ACCESS-TIMESTAMP and ACCESS-SIGN made from them; a
\* private call on a Context without credentials raises and sends nothing.
C8_Credentials ==
    /\ \A c \in Contexts : (ctx[c].key # <<>>) <=> (ctx[c].secret # <<>>)
    /\ \A r \in Requests :
        r.call.path \in PrivatePaths =>
            /\ ctx[last.cxt].key # <<>> /\ ctx[last.cxt].secret # <<>>
            /\ r.headers # <<>>
            /\ r.headers[1].ACCESS_KEY = ctx[last.cxt].key[1]
            /\ r.headers[1].ACCESS_TIMESTAMP \in Timestamps
            /\ r.headers[1].ACCESS_SIGN.key = ctx[last.cxt].secret[1]
    /\ (last.op \in PrivateOps /\ ctx[last.cxt].key = <<>>) => (last.exc # None /\ sent = <<>>)

C8_Witness ==
    /\ last.op = "me_sendchildorder"
    /\ Len(sent) = 1
    /\ sent[1].call.path \in PrivatePaths
    /\ sent[1].headers # <<>>
    /\ sent[1].headers[1].ACCESS_KEY = "K1"

\* C9: whenever the registry counts as populated, it holds exactly one Market
\* per distinct product_code of a completely fetched and parsed listing.
C9_PopulatedMeansLoaded ==
    hasMarkets =>
        /\ CompleteLoad
        /\ {_markets[i][1] : i \in 1..Len(_markets)}
                = {Listing[i].product_code : i \in 1..Len(Listing)}
        /\ Len(_markets) = Cardinality({Listing[i].product_code : i \in 1..Len(Listing)})
        /\ \A i \in 1..Len(_markets) :
            \E j \in 1..Len(Listing) : _markets[i] = <<Listing[j].product_code, Descriptor(Listing[j])>>

\* C10: me_cancelchildorder with exactly one keyword, on a Context with a bound
\* market and credentials, hands exactly one signed POST of
\* /v1/me/cancelchildorder to the transport, its body holding the market's
\* product_code and the id under its keyword; with none or several keywords it
\* fails and sends nothing.
C10_CancelSendsOne ==
    last.op = "me_cancelchildorder" =>
        IF Len(last.args) = 1
        THEN (ctx[last.cxt].market # <<>> /\ ctx[last.cxt].key # <<>>) =>
                /\ Len(sent) = 1
                /\ sent[1].method = "POST"
                /\ sent[1].call.path = <<"/v1/me/cancelchildorder">>
                /\ sent[1].headers # <<>>
                /\ sent[1].call.data =
                        <<<<"product_code", ctx[last.cxt].market[1].product_code>>, last.args[1]>>
        ELSE last.exc # None /\ sent = <<>>

====
